---- MODULE Spec2Model ----
(***************************************************************************)
(* Model of openai-files (main.go): one run of main() is a sequence of     *)
(* steps over the local folder, the manifest file named by --output, the   *)
(* OpenAI Files endpoint and the vector store.  Runs follow one another;   *)
(* between two runs the folder may change.                                 *)
(***************************************************************************)
EXTENDS Integers, Sequences, FiniteSets, TLC

\* ------------------------------------------------------------- bounds
NumPaths == 2
NumHashes == 2
MaxRuns == 3

Paths == 1..NumPaths
Hashes == 1..NumHashes

\* ------------------------------------------------------------- values
\* A missing file in the folder.
Absent == 0
\* The empty string as a FileID.
NoFileID == 0
\* The empty string as a ManifestID.
NoManifestID == << >>

\* The zero value of LogInfo (GeneratedAt, the masked key and the constant
\* flag strings are not modelled: they never feed back into a run).
ZeroLogInfo == [Cleanup |-> FALSE, DryRun |-> FALSE]

\* The zero value of Manifest, "var manifest Manifest".
ZeroManifest == [ManifestID |-> NoManifestID, Files |-> << >>, LoggingInfo |-> ZeroLogInfo]

VARIABLES
    fs,               \* the folder of the current run: path -> content hash, or Absent
    disk,             \* the file named by --output
    remote,           \* FileIDs live in the Files endpoint
    vstore,           \* FileIDs registered in the vector store
    nextId,           \* the next FileID the Files endpoint hands out
    runs,             \* number of runs started
    pc,               \* position of the current run in main()
    dryRun, cleanup, output,   \* the flags of the current run
    manifest,         \* main's manifest (the prior manifest)
    updatedManifest,  \* main's updatedManifest
    i,                \* index of the upload loop
    k,                \* index of the cleanup loop
    priorDisk,        \* the output file as the run found it
    calls,            \* the remote calls of the current run, in order
    outcome,          \* "ok", "panic" or "running"
    written,          \* what saveOrPrintManifest did
    synced,           \* the last run was a non-dry run that ended normally and wrote the manifest
    rerun,            \* the current run follows such a run, on the same folder and the manifest it wrote
    indexed,          \* FileIDs whose createVectorStoreFile call was answered 200, in any run
    allClean          \* every run so far was --cleanup --output without --dry-run, no remote call failed, every write succeeded

vars == << fs, disk, remote, vstore, nextId, runs, pc, dryRun, cleanup, output,
           manifest, updatedManifest, i, k, priorDisk, calls, outcome,
           written, synced, rerun, indexed, allClean >>

\* ------------------------------------------------------------- helpers
\* All orderings of a finite set as sequences without repetition.
Orderings(S) ==
    { s \in [1..Cardinality(S) -> S] : \A a, b \in 1..Cardinality(S) : a # b => s[a] # s[b] }

RECURSIVE SortedSeq(_)
SortedSeq(S) ==
    IF S = {} THEN << >>
    ELSE LET m == CHOOSE x \in S : \A y \in S : x <= y
         IN << m >> \o SortedSeq(S \ {m})

\* The paths filepath.Walk visits that are not directories.
WalkedPaths(folder) == { p \in Paths : folder[p] # Absent }

\* ------------------------------------------------------------- JSON
\* json.MarshalIndent of a FileInfo: file_id and manifest_id are omitempty.
EncodeFileInfo(f) ==
    IF f.FileID = NoFileID /\ f.ManifestID = NoManifestID
        THEN [path |-> f.Path, sha256 |-> f.SHA256]
    ELSE IF f.FileID = NoFileID
        THEN [path |-> f.Path, sha256 |-> f.SHA256, manifest_id |-> f.ManifestID]
    ELSE IF f.ManifestID = NoManifestID
        THEN [path |-> f.Path, sha256 |-> f.SHA256, file_id |-> f.FileID]
    ELSE [path |-> f.Path, sha256 |-> f.SHA256, file_id |-> f.FileID, manifest_id |-> f.ManifestID]

\* json.Unmarshal of one element of "files": a missing key leaves the zero value.
DecodeFileInfo(j) ==
    [Path |-> j.path, SHA256 |-> j.sha256,
     FileID |-> IF "file_id" \in DOMAIN j THEN j.file_id ELSE NoFileID,
     ManifestID |-> IF "manifest_id" \in DOMAIN j THEN j.manifest_id ELSE NoManifestID]

EncodeManifest(m) ==
    [manifest_id |-> m.ManifestID,
     files |-> [n \in 1..Len(m.Files) |-> EncodeFileInfo(m.Files[n])],
     log_info |-> [cleanup |-> m.LoggingInfo.Cleanup, dry_run |-> m.LoggingInfo.DryRun]]

DecodeManifest(j) ==
    [ManifestID |-> j.manifest_id,
     Files |-> [n \in 1..Len(j.files) |-> DecodeFileInfo(j.files[n])],
     LoggingInfo |-> [Cleanup |-> j.log_info.cleanup, DryRun |-> j.log_info.dry_run]]

\* The output file: absent, a complete JSON document, or a document cut short
\* by a failed write.
NoFile == [state |-> "absent", doc |-> EncodeManifest(ZeroManifest)]
TruncatedFile == [state |-> "truncated", doc |-> EncodeManifest(ZeroManifest)]
JsonFile(m) == [state |-> "json", doc |-> EncodeManifest(m)]

\* main, lines 63-71: the manifest is read only when --output names an existing
\* file; the error of json.Unmarshal is dropped, and a document that is not
\* valid JSON leaves the zero Manifest.
LoadManifest(out, d) ==
    IF out /\ d.state = "json" THEN DecodeManifest(d.doc) ELSE ZeroManifest

\* ------------------------------------------------------------- main.go
\* generateManifestID: the digest of the walked paths, in walk (lexical) order.
generateManifestID(folder) == << 0 >> \o SortedSeq(WalkedPaths(folder))

\* A main that draws a fresh id on every run, whatever the manifest it loaded.
WithManifestID_Regenerated(m, folder) == [m EXCEPT !.ManifestID = generateManifestID(folder)]

\* main, lines 73-76.
WithManifestID(m, folder) ==
    IF m.ManifestID = NoManifestID
        THEN [m EXCEPT !.ManifestID = generateManifestID(folder)]
        ELSE m

\* scanFolder, lines 127-130: the prior records by path (a later record of the
\* same path replaces an earlier one).
PriorMap(m) ==
    [p \in { m.Files[n].Path : n \in 1..Len(m.Files) } |->
        m.Files[CHOOSE n \in 1..Len(m.Files) :
                    /\ m.Files[n].Path = p
                    /\ \A n2 \in 1..Len(m.Files) : m.Files[n2].Path = p => n2 <= n]]

\* A scan that replaces every walked record, without comparing the hashes.
scanFolderMap_NoCompare(folder, m) ==
    LET prior == PriorMap(m)
    IN [p \in (DOMAIN prior) \cup WalkedPaths(folder) |->
          IF p \in WalkedPaths(folder)
              THEN [Path |-> p, SHA256 |-> folder[p], FileID |-> NoFileID, ManifestID |-> m.ManifestID]
              ELSE prior[p]]

\* A scan that refreshes the hash of a changed file but keeps its old FileID.
scanFolderMap_KeepFileID(folder, m) ==
    LET prior == PriorMap(m)
    IN [p \in (DOMAIN prior) \cup WalkedPaths(folder) |->
          IF p \in WalkedPaths(folder) /\ p \notin DOMAIN prior
              THEN [Path |-> p, SHA256 |-> folder[p], FileID |-> NoFileID, ManifestID |-> m.ManifestID]
          ELSE IF p \in WalkedPaths(folder) /\ prior[p].SHA256 # folder[p]
              THEN [prior[p] EXCEPT !.SHA256 = folder[p]]
              ELSE prior[p]]

\* scanFolder, lines 127-140: manifestMap after the walk.
scanFolderMap(folder, m) ==
    LET prior == PriorMap(m)
    IN [p \in (DOMAIN prior) \cup WalkedPaths(folder) |->
          IF p \in WalkedPaths(folder) /\ (p \notin DOMAIN prior \/ prior[p].SHA256 # folder[p])
              THEN [Path |-> p, SHA256 |-> folder[p], FileID |-> NoFileID, ManifestID |-> m.ManifestID]
              ELSE prior[p]]

\* scanFolder, lines 142-147: the values of manifestMap in the order the map
\* iteration yields them, which Go leaves unspecified.
scanFolder(folder, m) ==
    LET mm == scanFolderMap(folder, m)
    IN { [ManifestID |-> m.ManifestID,
          Files |-> [n \in 1..Len(ord) |-> mm[ord[n]]],
          LoggingInfo |-> m.LoggingInfo] : ord \in Orderings(DOMAIN mm) }

\* performCleanup, lines 271-274: the keys of fileMap.
fileMapKeys(updated) == { updated.Files[n].FileID : n \in 1..Len(updated.Files) }

\* A cleanup with the test of line 277 inverted: the FileIDs still in use are deleted.
CleanupSelects_Inverted(updated, old, n) == old.Files[n].FileID \in fileMapKeys(updated)

\* performCleanup, line 277: whether the old record at index n is deleted.
CleanupSelects(updated, old, n) == old.Files[n].FileID \notin fileMapKeys(updated)

\* main, line 93: the upload loop runs unless --dry-run.
UploadsRun(dry) == ~dry

\* A cleanup that forgets --dry-run.
CleanupRuns_IgnoreDryRun(clean, dry) == clean

\* main, line 107: the cleanup runs with --cleanup and without --dry-run.
CleanupRuns(clean, dry) == clean /\ ~dry

\* An upload loop without the test of line 95: every record is uploaded.
NextUpload_Every(updated, from) == IF from <= Len(updated.Files) THEN from ELSE 0

\* The first index >= from of the upload loop whose record has no FileID (line 95),
\* or 0 when the loop runs out.
NextUpload(updated, from) ==
    LET c == { n \in from..Len(updated.Files) : updated.Files[n].FileID = NoFileID }
    IN IF c = {} THEN 0 ELSE CHOOSE n \in c : \A n2 \in c : n <= n2

\* The first index >= from of the cleanup loop that is deleted, or 0.
NextCleanup(updated, old, from) ==
    LET c == { n \in from..Len(old.Files) : CleanupSelects(updated, old, n) }
    IN IF c = {} THEN 0 ELSE CHOOSE n \in c : \A n2 \in c : n <= n2

Call(op, path, id, ok) == [op |-> op, path |-> path, id |-> id, ok |-> ok]

\* ------------------------------------------------------------- actions
Init ==
    /\ fs = [p \in Paths |-> Absent]
    /\ disk = NoFile
    /\ remote = {}
    /\ vstore = {}
    /\ nextId = 1
    /\ runs = 0
    /\ pc = "exit"
    /\ dryRun = FALSE
    /\ cleanup = FALSE
    /\ output = FALSE
    /\ manifest = ZeroManifest
    /\ updatedManifest = ZeroManifest
    /\ i = 1
    /\ k = 1
    /\ priorDisk = NoFile
    /\ calls = << >>
    /\ outcome = "ok"
    /\ written = "none"
    /\ synced = FALSE
    /\ rerun = FALSE
    /\ indexed = {}
    /\ allClean = TRUE

\* One run starts: the folder is as the user left it since the last run (files
\* added, changed or removed), then main, lines 61-90: flags, the prior
\* manifest, its id, the scan, the log info.
StartRun ==
    /\ pc = "exit"
    /\ runs < MaxRuns
    /\ \E folder \in [Paths -> Hashes \cup {Absent}], d, c, o \in BOOLEAN :
         LET m == WithManifestID(LoadManifest(o, disk), folder)
         IN /\ fs' = folder
            /\ rerun' = (synced /\ folder = fs /\ o)
            /\ allClean' = (allClean /\ ~d /\ c /\ o)
            /\ dryRun' = d
            /\ cleanup' = c
            /\ output' = o
            /\ manifest' = m
            /\ \E u \in scanFolder(folder, m) :
                 updatedManifest' = [u EXCEPT !.LoggingInfo = [Cleanup |-> c, DryRun |-> d]]
    /\ runs' = runs + 1
    /\ priorDisk' = disk
    /\ calls' = << >>
    /\ outcome' = "running"
    /\ written' = "none"
    /\ i' = 1
    /\ k' = 1
    /\ pc' = "upload"
    /\ synced' = FALSE
    /\ UNCHANGED << disk, remote, vstore, nextId, indexed >>

\* main, lines 94-98: the next record without a FileID is uploaded.  uploadFile
\* panics when the file cannot be opened or the endpoint does not answer 200.
UploadFile ==
    /\ pc = "upload"
    /\ UploadsRun(dryRun)
    /\ NextUpload(updatedManifest, i) # 0
    /\ LET n == NextUpload(updatedManifest, i)
           path == updatedManifest.Files[n].Path
       IN IF fs[path] = Absent
          THEN /\ pc' = "exit"
               /\ outcome' = "panic"
               /\ i' = n
               /\ UNCHANGED << remote, nextId, updatedManifest, calls >>
          ELSE \E ok \in BOOLEAN :
               IF ok
               THEN /\ remote' = remote \cup {nextId}
                    /\ nextId' = nextId + 1
                    /\ updatedManifest' = [updatedManifest EXCEPT !.Files[n].FileID = nextId]
                    /\ calls' = Append(calls, Call("upload", path, nextId, TRUE))
                    /\ i' = n
                    /\ pc' = "index"
                    /\ UNCHANGED outcome
               ELSE /\ calls' = Append(calls, Call("upload", path, NoFileID, FALSE))
                    /\ i' = n
                    /\ pc' = "exit"
                    /\ outcome' = "panic"
                    /\ UNCHANGED << remote, nextId, updatedManifest >>
    /\ allClean' = (allClean /\ pc' # "exit")
    /\ UNCHANGED << fs, disk, vstore, runs, dryRun, cleanup, output, manifest, k,
                    priorDisk, written, synced, rerun, indexed >>

\* A createVectorStoreFile without the status check of lines 243-247.
createVectorStoreFilePanics_Never(ok) == FALSE

\* createVectorStoreFile, lines 238-247: any answer but 200 is a panic.
createVectorStoreFilePanics(ok) == ~ok

\* main, line 101: createVectorStoreFile(fileID).
CreateVectorStoreFile ==
    /\ pc = "index"
    /\ LET id == updatedManifest.Files[i].FileID
       IN \E ok \in BOOLEAN :
            /\ calls' = Append(calls, Call("index", updatedManifest.Files[i].Path, id, ok))
            /\ vstore' = IF ok THEN vstore \cup {id} ELSE vstore
            /\ indexed' = IF ok THEN indexed \cup {id} ELSE indexed
            /\ allClean' = (allClean /\ ok)
            /\ IF createVectorStoreFilePanics(ok)
               THEN /\ pc' = "exit"
                    /\ outcome' = "panic"
                    /\ UNCHANGED i
               ELSE /\ i' = i + 1
                    /\ pc' = "upload"
                    /\ UNCHANGED outcome
    /\ UNCHANGED << fs, disk, remote, nextId, runs, dryRun, cleanup, output, manifest,
                    updatedManifest, k, priorDisk, written, synced, rerun >>

\* main, lines 93-109: the upload loop is over (or skipped by --dry-run); the
\* cleanup runs only with --cleanup and without --dry-run.
EndUploads ==
    /\ pc = "upload"
    /\ ~UploadsRun(dryRun) \/ NextUpload(updatedManifest, i) = 0
    /\ pc' = IF CleanupRuns(cleanup, dryRun) THEN "cleanup" ELSE "save"
    /\ UNCHANGED << fs, disk, remote, vstore, nextId, runs, dryRun, cleanup, output,
                    manifest, updatedManifest, i, k, priorDisk, calls,
                    outcome, written, synced, rerun, indexed, allClean >>

\* performCleanup, lines 276-280: deleteFile of the next old record whose FileID
\* is not a key of fileMap.
DeleteFile ==
    /\ pc = "cleanup"
    /\ NextCleanup(updatedManifest, manifest, k) # 0
    /\ LET n == NextCleanup(updatedManifest, manifest, k)
           id == manifest.Files[n].FileID
       IN \E ok \in BOOLEAN :
            /\ calls' = Append(calls, Call("delete", manifest.Files[n].Path, id, ok))
            /\ k' = n
            /\ IF ok
               THEN /\ remote' = remote \ {id}
                    /\ pc' = "delist"
                    /\ UNCHANGED outcome
               ELSE /\ pc' = "exit"
                    /\ outcome' = "panic"
                    /\ UNCHANGED remote
            /\ allClean' = (allClean /\ ok)
    /\ UNCHANGED << fs, disk, vstore, nextId, runs, dryRun, cleanup, output, manifest,
                    updatedManifest, i, priorDisk, written, synced, rerun, indexed >>

\* A removeFromVectorStore without the status check of lines 263-267.
removeFromVectorStorePanics_Never(ok) == FALSE

\* removeFromVectorStore, lines 258-267: any answer but 200 is a panic.
removeFromVectorStorePanics(ok) == ~ok

\* performCleanup, line 283: removeFromVectorStore of the FileID just deleted.
RemoveFromVectorStore ==
    /\ pc = "delist"
    /\ LET id == manifest.Files[k].FileID
       IN \E ok \in BOOLEAN :
            /\ calls' = Append(calls, Call("delist", manifest.Files[k].Path, id, ok))
            /\ vstore' = IF ok THEN vstore \ {id} ELSE vstore
            /\ allClean' = (allClean /\ ok)
            /\ IF removeFromVectorStorePanics(ok)
               THEN /\ pc' = "exit"
                    /\ outcome' = "panic"
                    /\ UNCHANGED k
               ELSE /\ k' = k + 1
                    /\ pc' = "cleanup"
                    /\ UNCHANGED outcome
    /\ UNCHANGED << fs, disk, remote, nextId, runs, dryRun, cleanup, output, manifest,
                    updatedManifest, i, priorDisk, written, synced, rerun, indexed >>

\* performCleanup returns: no old record is left to delete.
EndCleanup ==
    /\ pc = "cleanup"
    /\ NextCleanup(updatedManifest, manifest, k) = 0
    /\ pc' = "save"
    /\ UNCHANGED << fs, disk, remote, vstore, nextId, runs, dryRun, cleanup, output,
                    manifest, updatedManifest, i, k, priorDisk, calls,
                    outcome, written, synced, rerun, indexed, allClean >>

\* saveOrPrintManifest: printed when --output is empty, else ioutil.WriteFile,
\* whose error is dropped.  A failed write leaves the file as it was (it could
\* not be opened) or cut short (it was truncated on open).
saveOrPrintManifest ==
    /\ pc = "save"
    /\ IF ~output
       THEN /\ written' = "printed"
            /\ UNCHANGED disk
       ELSE \/ /\ written' = "ok"
               /\ disk' = JsonFile(updatedManifest)
            \/ /\ written' = "failed"
               /\ disk' \in {disk, TruncatedFile}
    /\ pc' = "exit"
    /\ outcome' = "ok"
    /\ synced' = (~dryRun /\ written' = "ok")
    /\ allClean' = (allClean /\ written' = "ok")
    /\ UNCHANGED << fs, remote, vstore, nextId, runs, dryRun, cleanup, output, manifest,
                    updatedManifest, i, k, priorDisk, calls, rerun, indexed >>

Next ==
    \/ StartRun
    \/ UploadFile
    \/ CreateVectorStoreFile
    \/ EndUploads
    \/ DeleteFile
    \/ RemoveFromVectorStore
    \/ EndCleanup
    \/ saveOrPrintManifest

Spec == Init /\ [][Next]_vars

\* ------------------------------------------------------------- properties
\* The inventory of the current run: the paths the scan walked.
Inventory == WalkedPaths(fs)

\* The prior records of the current run, by path.
Prior == PriorMap(manifest)

\* A run has ended normally (saveOrPrintManifest returned).
Completed == runs > 0 /\ pc = "exit" /\ outcome = "ok"

Records(files) == { [Path |-> files[n].Path, SHA256 |-> files[n].SHA256, FileID |-> files[n].FileID] : n \in 1..Len(files) }

PathsOf(files) == { files[n].Path : n \in 1..Len(files) }

\* The records of the output file.
DiskFiles(d) == IF d.state = "json" THEN DecodeManifest(d.doc).Files ELSE << >>

CallsOf(op) == { c \in 1..Len(calls) : calls[c].op = op }

\* The inventory paths the run has to upload: new, or changed since the prior record.
NewOrChanged == { p \in Inventory : p \notin DOMAIN Prior \/ Prior[p].SHA256 # fs[p] }

\* The inventory paths whose prior record is up to date and already uploaded.
Unchanged == { p \in Inventory : p \in DOMAIN Prior /\ Prior[p].SHA256 = fs[p] /\ Prior[p].FileID # NoFileID }

\* The prior records whose file is gone from the folder.
Vanished == { p \in DOMAIN Prior : p \notin Inventory }

\* C1: in a non-dry run that ended normally, with cleanup every prior record
\* that has a FileID and whose path is gone from the inventory got exactly one
\* remote delete of that FileID; without cleanup no delete was issued.
C1_CleanupDeletesVanished ==
    (Completed /\ ~dryRun) =>
        /\ cleanup =>
             \A p \in Vanished :
                Prior[p].FileID # NoFileID =>
                    Cardinality({ c \in CallsOf("delete") : calls[c].id = Prior[p].FileID }) = 1
        /\ ~cleanup => CallsOf("delete") = {}

\* C2: once a run has scanned, the paths of the new manifest are exactly the
\* paths of the inventory.
C2_ManifestPathsAreInventory ==
    runs > 0 => PathsOf(updatedManifest.Files) = Inventory

\* C3: a dry run with a non-empty plan that found a manifest file leaves that
\* file as it found it.
C3_DryRunLeavesManifestFile ==
    (Completed /\ dryRun /\ written = "ok" /\ priorDisk.state = "json"
        /\ (NewOrChanged # {} \/ Vanished # {}))
    => disk = priorDisk

\* C4: a dry run issues no remote call (upload, index, delete or delist),
\* whatever the prior manifest, the folder and --cleanup.
C4_DryRunNoRemoteCall ==
    dryRun => calls = << >>

C4_Witness ==
    /\ Completed /\ dryRun /\ cleanup
    /\ NextUpload(updatedManifest, 1) # 0
    /\ NextCleanup(updatedManifest, manifest, 1) # 0
    /\ calls = << >>

\* C5: a run that follows a saved, normally ended non-dry run on the same folder
\* and the manifest that run wrote issues no remote call and keeps the path,
\* hash and FileID of every record.
C5_SecondRunIdempotent ==
    rerun =>
        /\ calls = << >>
        /\ Records(updatedManifest.Files) = Records(manifest.Files)
        /\ (pc = "exit" /\ written = "ok") => Records(DiskFiles(disk)) = Records(DiskFiles(priorDisk))

C5_Witness ==
    /\ rerun /\ Completed /\ written = "ok" /\ ~dryRun /\ cleanup
    /\ Cardinality(Records(DiskFiles(disk))) >= 2
    /\ Vanished # {}

C7_UnchangedRetained ==
    runs > 0 =>
        \A p \in Unchanged :
            /\ \A c \in 1..Len(calls) : calls[c].path # p /\ calls[c].id # Prior[p].FileID
            /\ [Path |-> p, SHA256 |-> Prior[p].SHA256, FileID |-> Prior[p].FileID]
                    \in Records(updatedManifest.Files)
            /\ Cardinality({ n \in 1..Len(updatedManifest.Files) : updatedManifest.Files[n].Path = p }) = 1
            /\ (pc = "exit" /\ written = "ok") =>
                  [Path |-> p, SHA256 |-> Prior[p].SHA256, FileID |-> Prior[p].FileID]
                        \in Records(DiskFiles(disk))

C7_Witness ==
    /\ Completed /\ ~dryRun /\ cleanup /\ written = "ok"
    /\ Unchanged # {}
    /\ CallsOf("upload") # {}
    /\ CallsOf("delete") # {}

\* C8: after a non-dry run that ended normally and wrote the manifest, every
\* record of the manifest file has a FileID that is live in the Files endpoint
\* (stated for the records of the files still in the folder, which are records
\* of the manifest whatever becomes of the vanished paths).
C8_SavedFileIDsLive ==
    (Completed /\ ~dryRun /\ written = "ok") =>
        \A n \in 1..Len(DiskFiles(disk)) :
            DiskFiles(disk)[n].Path \in Inventory =>
                /\ DiskFiles(disk)[n].FileID # NoFileID
                /\ DiskFiles(disk)[n].FileID \in remote

\* C9: a run that loaded a manifest with an id keeps that id in the manifest it
\* builds and writes, whatever the folder holds; a run that loaded none takes an
\* id that any folder with the same set of paths would give.
C9_ManifestIDStable ==
    runs > 0 =>
        LET loaded == LoadManifest(output, priorDisk).ManifestID
        IN /\ loaded # NoManifestID =>
                /\ updatedManifest.ManifestID = loaded
                /\ (pc = "exit" /\ written = "ok") => disk.doc.manifest_id = loaded
           /\ loaded = NoManifestID =>
                /\ updatedManifest.ManifestID # NoManifestID
                /\ \A folder \in [Paths -> Hashes \cup {Absent}] :
                      WalkedPaths(folder) = Inventory =>
                          generateManifestID(folder) = updatedManifest.ManifestID
                /\ (pc = "exit" /\ written = "ok") => disk.doc.manifest_id = updatedManifest.ManifestID

C9_Witness ==
    /\ Completed /\ written = "ok"
    /\ LoadManifest(output, priorDisk).ManifestID # NoManifestID
    /\ disk.doc.manifest_id # generateManifestID(fs)
    /\ PathsOf(DiskFiles(priorDisk)) # Inventory

\* C10: every remote delete (of a FileID that is not empty) is for the FileID
\* of a prior record whose path is gone from the inventory, never for the
\* FileID of a prior record whose path is still in the inventory.
C10_DeleteOnlyVanished ==
    \A c \in CallsOf("delete") :
        calls[c].id # NoFileID =>
            /\ \E p \in Vanished : Prior[p].FileID = calls[c].id
            /\ \A p \in Inventory \cap DOMAIN Prior : Prior[p].FileID # calls[c].id

\* C11: no delete and no delist call is issued with an empty FileID: a prior
\* record that was never uploaded causes no remote cleanup call.
C11_NoCleanupCallWithEmptyFileID ==
    \A c \in CallsOf("delete") \cup CallsOf("delist") : calls[c].id # NoFileID

C13_FailedCallEndsRun ==
    \A c \in 1..Len(calls) :
        ~calls[c].ok =>
            /\ c = Len(calls)
            /\ pc = "exit" /\ outcome = "panic"
            /\ written = "none"
            /\ disk = priorDisk

C13_Witness ==
    /\ pc = "exit" /\ outcome = "panic" /\ output
    /\ Len(calls) >= 3 /\ ~calls[Len(calls)].ok
    /\ calls[Len(calls)].op \in {"delete", "delist"}
    /\ priorDisk.state = "json" /\ disk = priorDisk
    /\ Records(updatedManifest.Files) # Records(DiskFiles(disk))

\* C14: a delete call for a FileID comes after the delist call for the same
\* FileID (stated for the FileIDs that are not empty).
C14_DelistBeforeDelete ==
    \A c \in CallsOf("delete") :
        calls[c].id # NoFileID =>
            \E c2 \in CallsOf("delist") : c2 < c /\ calls[c2].id = calls[c].id

\* C15: whenever no run is in progress (before the first run, after a run that
\* ended normally or after one that a failed call aborted), every record of the
\* manifest file that has a FileID names a file that is live in the Files
\* endpoint.
C15_PersistedFileIDsExist ==
    pc = "exit" =>
        \A n \in 1..Len(DiskFiles(disk)) :
            DiskFiles(disk)[n].FileID # NoFileID => DiskFiles(disk)[n].FileID \in remote

\* What one remote call makes the run print: main.go:98 and 280 after a call
\* that succeeded, main.go:195, 222, 245 and 265 on an answer that is not 200.
MessageOf(c) ==
    IF c.op = "upload" THEN (IF c.ok THEN "Uploaded" ELSE "Error uploading file")
    ELSE IF c.op = "index" THEN (IF c.ok THEN "" ELSE "Error creating vector store file")
    ELSE IF c.op = "delete" THEN (IF c.ok THEN "Deleted FileID" ELSE "Error deleting file")
    ELSE (IF c.ok THEN "" ELSE "Error removing vector store file")

\* Everything the current run has printed so far (main.go:292 prints the manifest
\* itself when --output is empty).
Stdout ==
    ({ MessageOf(calls[c]) : c \in 1..Len(calls) } \ {""})
        \cup (IF written = "printed" THEN {"manifest"} ELSE {})

\* The run found an output file that json.Unmarshal rejects.
DecodeFailed == runs > 0 /\ output /\ priorDisk.state = "truncated"

\* A message that tells the user the manifest file was not decoded.
DecodeWarning == "Warning: manifest not decoded"

\* C16: a run that finds a manifest file it cannot decode either stops there
\* (before any remote call and without writing) or goes on with the empty
\* manifest after it has printed a warning.
C16_DecodeErrorSurfaced ==
    DecodeFailed =>
        \/ DecodeWarning \in Stdout
        \/ pc = "exit" /\ outcome = "panic" /\ calls = << >> /\ written = "none"

\* C17: when the write of the manifest fails, the run does not end as a
\* success and the manifest file is as the run found it.
C17_WriteFailureReported ==
    written = "failed" => (outcome # "ok" /\ disk = priorDisk)

PathSeq(files) == [n \in 1..Len(files) |-> files[n].Path]

\* C18: the order of the records a run writes is fixed by its inputs (every
\* order scanFolder can return for this folder and prior manifest is the order
\* this run wrote), and it is the ascending order of the paths.
C18_SavedOrderDeterministic ==
    (Completed /\ written = "ok") =>
        /\ \A u \in scanFolder(fs, manifest) : PathSeq(u.Files) = PathSeq(DiskFiles(disk))
        /\ \A a, b \in 1..Len(DiskFiles(disk)) :
              a < b => DiskFiles(disk)[a].Path < DiskFiles(disk)[b].Path

\* C19: the record the upload loop is about to pass to uploadFile is the record
\* of a path of the inventory, every upload call is for a path of the
\* inventory, and a run is aborted by a failed remote call only (never by a
\* file that uploadFile cannot open).
C19_UploadOnlyInventoryPaths ==
    /\ (pc = "upload" /\ UploadsRun(dryRun) /\ NextUpload(updatedManifest, i) # 0) =>
            updatedManifest.Files[NextUpload(updatedManifest, i)].Path \in Inventory
    /\ \A c \in CallsOf("upload") : calls[c].path \in Inventory
    /\ (pc = "exit" /\ outcome = "panic") => (calls # << >> /\ ~calls[Len(calls)].ok)

\* The FileIDs the manifest file names.
PersistedFileIDs == { DiskFiles(disk)[n].FileID : n \in 1..Len(DiskFiles(disk)) } \ {NoFileID}

\* C20: from no manifest and an empty Files endpoint, after any number of runs
\* with --cleanup and --output, without --dry-run, in which every remote call
\* and every write succeeded, the files live in the Files endpoint are exactly
\* the files the manifest file names.
C20_NoOrphansUnderCleanup ==
    (allClean /\ pc = "exit") => remote = PersistedFileIDs

C20_Witness ==
    /\ allClean /\ pc = "exit" /\ runs >= 2
    /\ CallsOf("delete") # {}
    /\ CallsOf("upload") # {}
    /\ Vanished # {}
    /\ Cardinality(remote) >= 2
    /\ remote = PersistedFileIDs

====
